---- MODULE Spec2Model ----
(***************************************************************************)
(* The kanata TCP/UDP control protocol (tcp_protocol/src/lib.rs): the      *)
(* message schema, its serde-derived JSON encoding, the newline framing    *)
(* of as_bytes and the decoding of inbound lines.                          *)
(*                                                                         *)
(* Wire data is a sequence of bytes (Vec<u8>), each byte a number 0..255.  *)
(* A Rust String is the sequence of its UTF-8 bytes.  A JSON document in   *)
(* the middle of a conversion is a tree:                                   *)
(*   [t |-> "null"]  [t |-> "bool", b |-> TRUE]  [t |-> "num", n |-> 7]    *)
(*   [t |-> "str", s |-> bytes]  [t |-> "arr", a |-> <<tree, ...>>]        *)
(*   [t |-> "obj", kv |-> <<[k |-> bytes, v |-> tree], ...>>]              *)
(* with the members of an object in the order they appear in the text.     *)
(***************************************************************************)
EXTENDS Integers, Sequences, FiniteSets, TLC

VARIABLES pc, kind, value, bytes, decoded, stream, sent, delivered

vars == <<pc, kind, value, bytes, decoded, stream, sent, delivered>>

(***************************************************************************)
(* Bounds of the model.                                                    *)
(***************************************************************************)
\* longest string drawn over Alphabet for a String field
MaxStrLen == 1
\* longest names list of LayerNames
MaxNames == 1
\* most messages framed on one connection
MaxSent == 2

(***************************************************************************)
(* Byte literals: the UTF-8 bytes of the names and texts the model uses.   *)
(***************************************************************************)
Chars(s) ==
  CASE s = "status" -> <<115, 116, 97, 116, 117, 115>>
    [] s = "msg" -> <<109, 115, 103>>
    [] s = "Ok" -> <<79, 107>>
    [] s = "Error" -> <<69, 114, 114, 111, 114>>
    [] s = "LayerChange" -> <<76, 97, 121, 101, 114, 67, 104, 97, 110, 103, 101>>
    [] s = "LayerNames" -> <<76, 97, 121, 101, 114, 78, 97, 109, 101, 115>>
    [] s = "CurrentLayerInfo" -> <<67, 117, 114, 114, 101, 110, 116, 76, 97, 121, 101, 114, 73, 110, 102, 111>>
    [] s = "ConfigFileReload" -> <<67, 111, 110, 102, 105, 103, 70, 105, 108, 101, 82, 101, 108, 111, 97, 100>>
    [] s = "CurrentLayerName" -> <<67, 117, 114, 114, 101, 110, 116, 76, 97, 121, 101, 114, 78, 97, 109, 101>>
    [] s = "MessagePush" -> <<77, 101, 115, 115, 97, 103, 101, 80, 117, 115, 104>>
    [] s = "AuthResult" -> <<65, 117, 116, 104, 82, 101, 115, 117, 108, 116>>
    [] s = "AuthRequired" -> <<65, 117, 116, 104, 82, 101, 113, 117, 105, 114, 101, 100>>
    [] s = "SessionExpired" -> <<83, 101, 115, 115, 105, 111, 110, 69, 120, 112, 105, 114, 101, 100>>
    [] s = "new" -> <<110, 101, 119>>
    [] s = "names" -> <<110, 97, 109, 101, 115>>
    [] s = "name" -> <<110, 97, 109, 101>>
    [] s = "cfg_text" -> <<99, 102, 103, 95, 116, 101, 120, 116>>
    [] s = "message" -> <<109, 101, 115, 115, 97, 103, 101>>
    [] s = "success" -> <<115, 117, 99, 99, 101, 115, 115>>
    [] s = "session_id" -> <<115, 101, 115, 115, 105, 111, 110, 95, 105, 100>>
    [] s = "expires_in_seconds" -> <<101, 120, 112, 105, 114, 101, 115, 95, 105, 110, 95, 115, 101, 99, 111, 110, 100, 115>>
    [] s = "Authenticate" -> <<65, 117, 116, 104, 101, 110, 116, 105, 99, 97, 116, 101>>
    [] s = "ChangeLayer" -> <<67, 104, 97, 110, 103, 101, 76, 97, 121, 101, 114>>
    [] s = "RequestLayerNames" -> <<82, 101, 113, 117, 101, 115, 116, 76, 97, 121, 101, 114, 78, 97, 109, 101, 115>>
    [] s = "RequestCurrentLayerInfo" -> <<82, 101, 113, 117, 101, 115, 116, 67, 117, 114, 114, 101, 110, 116, 76, 97, 121, 101, 114, 73, 110, 102, 111>>
    [] s = "RequestCurrentLayerName" -> <<82, 101, 113, 117, 101, 115, 116, 67, 117, 114, 114, 101, 110, 116, 76, 97, 121, 101, 114, 78, 97, 109, 101>>
    [] s = "ActOnFakeKey" -> <<65, 99, 116, 79, 110, 70, 97, 107, 101, 75, 101, 121>>
    [] s = "SetMouse" -> <<83, 101, 116, 77, 111, 117, 115, 101>>
    [] s = "Reload" -> <<82, 101, 108, 111, 97, 100>>
    [] s = "ReloadNext" -> <<82, 101, 108, 111, 97, 100, 78, 101, 120, 116>>
    [] s = "ReloadPrev" -> <<82, 101, 108, 111, 97, 100, 80, 114, 101, 118>>
    [] s = "ReloadNum" -> <<82, 101, 108, 111, 97, 100, 78, 117, 109>>
    [] s = "ReloadFile" -> <<82, 101, 108, 111, 97, 100, 70, 105, 108, 101>>
    [] s = "token" -> <<116, 111, 107, 101, 110>>
    [] s = "client_name" -> <<99, 108, 105, 101, 110, 116, 95, 110, 97, 109, 101>>
    [] s = "action" -> <<97, 99, 116, 105, 111, 110>>
    [] s = "x" -> <<120>>
    [] s = "y" -> <<121>>
    [] s = "index" -> <<105, 110, 100, 101, 120>>
    [] s = "path" -> <<112, 97, 116, 104>>
    [] s = "Press" -> <<80, 114, 101, 115, 115>>
    [] s = "Release" -> <<82, 101, 108, 101, 97, 115, 101>>
    [] s = "Tap" -> <<84, 97, 112>>
    [] s = "Toggle" -> <<84, 111, 103, 103, 108, 101>>
    [] s = "null" -> <<110, 117, 108, 108>>
    [] s = "true" -> <<116, 114, 117, 101>>
    [] s = "false" -> <<102, 97, 108, 115, 101>>
    [] s = "qwerty" -> <<113, 119, 101, 114, 116, 121>>
    [] s = "abc" -> <<97, 98, 99>>
    [] s = "test" -> <<116, 101, 115, 116>>
    [] s = "a" -> <<97>>
    [] s = "Bogus" -> <<66, 111, 103, 117, 115>>
    [] s = "extra" -> <<101, 120, 116, 114, 97>>
    [] s = "{\"status\":\"Ok\"}" -> <<123, 34, 115, 116, 97, 116, 117, 115, 34, 58, 34, 79, 107, 34, 125>>
    [] s = "{\"status\":\"Error\",\"msg\":\"test\"}" -> <<123, 34, 115, 116, 97, 116, 117, 115, 34, 58, 34, 69, 114, 114, 111, 114, 34, 44, 34, 109, 115, 103, 34, 58, 34, 116, 101, 115, 116, 34, 125>>
    [] s = "\"AuthRequired\"" -> <<34, 65, 117, 116, 104, 82, 101, 113, 117, 105, 114, 101, 100, 34>>
    [] s = "\"SessionExpired\"" -> <<34, 83, 101, 115, 115, 105, 111, 110, 69, 120, 112, 105, 114, 101, 100, 34>>
    [] s = "\"new\":\"qwerty\"" -> <<34, 110, 101, 119, 34, 58, 34, 113, 119, 101, 114, 116, 121, 34>>
    [] s = "\"session_id\":\"abc\"" -> <<34, 115, 101, 115, 115, 105, 111, 110, 95, 105, 100, 34, 58, 34, 97, 98, 99, 34>>
    [] s = "\"session_id\"" -> <<34, 115, 101, 115, 115, 105, 111, 110, 95, 105, 100, 34>>
    [] s = "\"client_name\"" -> <<34, 99, 108, 105, 101, 110, 116, 95, 110, 97, 109, 101, 34>>
    [] s = "\"expires_in_seconds\"" -> <<34, 101, 120, 112, 105, 114, 101, 115, 95, 105, 110, 95, 115, 101, 99, 111, 110, 100, 115, 34>>
    [] s = "{}" -> <<123, 125>>
    [] s = "{\"status\":\"Error\",\"msg\":" -> <<123, 34, 115, 116, 97, 116, 117, 115, 34, 58, 34, 69, 114, 114, 111, 114, 34, 44, 34, 109, 115, 103, 34, 58>>
    [] s = "}" -> <<125>>
    [] s = "\"action\":\"Press\"" -> <<34, 97, 99, 116, 105, 111, 110, 34, 58, 34, 80, 114, 101, 115, 115, 34>>
    [] s = "\"action\":\"Release\"" -> <<34, 97, 99, 116, 105, 111, 110, 34, 58, 34, 82, 101, 108, 101, 97, 115, 101, 34>>
    [] s = "\"action\":\"Tap\"" -> <<34, 97, 99, 116, 105, 111, 110, 34, 58, 34, 84, 97, 112, 34>>
    [] s = "\"action\":\"Toggle\"" -> <<34, 97, 99, 116, 105, 111, 110, 34, 58, 34, 84, 111, 103, 103, 108, 101, 34>>
    [] s = " { \"Reload\" : { } } " -> <<32, 123, 32, 34, 82, 101, 108, 111, 97, 100, 34, 32, 58, 32, 123, 32, 125, 32, 125, 32>>
    [] s = "{\"Reload\":{}}" -> <<123, 34, 82, 101, 108, 111, 97, 100, 34, 58, 123, 125, 125>>
    [] s = "{\"Reload\":{},}" -> <<123, 34, 82, 101, 108, 111, 97, 100, 34, 58, 123, 125, 44, 125>>
    [] s = "{\"Reload\":{}}x" -> <<123, 34, 82, 101, 108, 111, 97, 100, 34, 58, 123, 125, 125, 120>>
    [] s = "\"Reload\"" -> <<34, 82, 101, 108, 111, 97, 100, 34>>
    [] s = "[]" -> <<91, 93>>
    [] s = "{\"status\":\"Ok\"" -> <<123, 34, 115, 116, 97, 116, 117, 115, 34, 58, 34, 79, 107, 34>>
    [] s = "\"session_id\":" -> <<34, 115, 101, 115, 115, 105, 111, 110, 95, 105, 100, 34, 58>>
    [] s = "\"msg\":" -> <<34, 109, 115, 103, 34, 58>>

\* the bytes with a role in JSON text
ch == [lf |-> 10, tab |-> 9, cr |-> 13, bs |-> 8, ff |-> 12, space |-> 32,
       quote |-> 34, comma |-> 44, slash |-> 47, zero |-> 48, nine |-> 57,
       colon |-> 58, lbracket |-> 91, backslash |-> 92, rbracket |-> 93,
       lbrace |-> 123, rbrace |-> 125]

RECURSIVE Concat(_)
\* the concatenation of a sequence of byte sequences
Concat(ss) == IF ss = <<>> THEN <<>> ELSE Head(ss) \o Concat(Tail(ss))

(***************************************************************************)
(* serde_json, writing: the compact formatter behind serde_json::to_vec.   *)
(***************************************************************************)
\* a hex digit, lower case
Hex(d) == IF d < 10 THEN 48 + d ELSE 87 + d

\* EscapeByte with the line feed written raw
EscapeByte_raw_lf(c) ==
  IF c = ch.quote THEN <<ch.backslash, ch.quote>>
  ELSE IF c = ch.backslash THEN <<ch.backslash, ch.backslash>>
  ELSE IF c < 32 /\ c # ch.lf
    THEN <<ch.backslash, 117, 48, 48, Hex(c \div 16), Hex(c % 16)>>
  ELSE <<c>>

\* one byte of a string as the writer emits it inside the quotes
EscapeByte(c) ==
  IF c = ch.quote THEN <<ch.backslash, ch.quote>>
  ELSE IF c = ch.backslash THEN <<ch.backslash, ch.backslash>>
  ELSE IF c = ch.bs THEN <<ch.backslash, 98>>
  ELSE IF c = ch.ff THEN <<ch.backslash, 102>>
  ELSE IF c = ch.lf THEN <<ch.backslash, 110>>
  ELSE IF c = ch.cr THEN <<ch.backslash, 114>>
  ELSE IF c = ch.tab THEN <<ch.backslash, 116>>
  ELSE IF c < 32 THEN <<ch.backslash, 117, 48, 48, Hex(c \div 16), Hex(c % 16)>>
  ELSE <<c>>

\* a string as a JSON string literal
format_escaped_str(s) ==
  <<ch.quote>> \o Concat([i \in 1..Len(s) |-> EscapeByte(s[i])]) \o <<ch.quote>>

RECURSIVE Decimal(_)
\* an unsigned integer in decimal digits
Decimal(n) == IF n < 10 THEN <<48 + n>> ELSE Decimal(n \div 10) \o <<48 + (n % 10)>>

RECURSIVE Join(_)
\* the members of a sequence separated by commas
Join(ss) ==
  IF ss = <<>> THEN <<>>
  ELSE IF Len(ss) = 1 THEN ss[1]
  ELSE ss[1] \o <<ch.comma>> \o Join(Tail(ss))

RECURSIVE to_vec(_)
\* the compact JSON text of a tree
to_vec(tree) ==
  CASE tree.t = "null" -> Chars("null")
    [] tree.t = "bool" -> IF tree.b THEN Chars("true") ELSE Chars("false")
    [] tree.t = "num" -> Decimal(tree.n)
    [] tree.t = "str" -> format_escaped_str(tree.s)
    [] tree.t = "arr" ->
         <<ch.lbracket>> \o Join([i \in 1..Len(tree.a) |-> to_vec(tree.a[i])])
           \o <<ch.rbracket>>
    [] tree.t = "obj" ->
         <<ch.lbrace>>
           \o Join([i \in 1..Len(tree.kv) |->
                      format_escaped_str(tree.kv[i].k) \o <<ch.colon>>
                        \o to_vec(tree.kv[i].v)])
           \o <<ch.rbrace>>

(***************************************************************************)
(* serde_json, reading: the parser behind serde_json::from_str.  A result  *)
(* is [ok |-> TRUE, val |-> ..., pos |-> next index] or Err.  Negative     *)
(* numbers, fractions and exponents are not among the generated inputs and *)
(* are not parsed.                                                         *)
(***************************************************************************)
Err == [ok |-> FALSE]

Ok(v) == [ok |-> TRUE, val |-> v]

At(v, i) == [ok |-> TRUE, val |-> v, pos |-> i]

IsDigit(c) == c >= ch.zero /\ c <= ch.nine

RECURSIVE parse_whitespace(_, _)
\* the index of the first byte at or after i that is not whitespace
parse_whitespace(s, i) ==
  IF i <= Len(s) /\ s[i] \in {ch.space, ch.lf, ch.tab, ch.cr}
  THEN parse_whitespace(s, i + 1) ELSE i

\* the value of a hex digit, -1 for any other byte
HexVal(c) ==
  IF IsDigit(c) THEN c - 48
  ELSE IF c >= 97 /\ c <= 102 THEN c - 87
  ELSE IF c >= 65 /\ c <= 70 THEN c - 55
  ELSE -1

\* the UTF-8 bytes of a code point of the basic plane; a lone surrogate is
\* an error (surrogate pairs are not among the generated inputs)
Utf8(n) ==
  IF n < 128 THEN Ok(<<n>>)
  ELSE IF n < 2048 THEN Ok(<<192 + (n \div 64), 128 + (n % 64)>>)
  ELSE IF n >= 55296 /\ n <= 57343 THEN Err
  ELSE Ok(<<224 + (n \div 4096), 128 + ((n \div 64) % 64), 128 + (n % 64)>>)

\* Unescape with the escape n read as the letter n
Unescape_n_as_letter ==
  (ch.quote :> ch.quote) @@ (ch.backslash :> ch.backslash)
    @@ (ch.slash :> ch.slash) @@ (98 :> ch.bs) @@ (102 :> ch.ff)
    @@ (110 :> 110) @@ (114 :> ch.cr) @@ (116 :> ch.tab)

\* the byte a one-letter escape stands for
Unescape ==
  (ch.quote :> ch.quote) @@ (ch.backslash :> ch.backslash)
    @@ (ch.slash :> ch.slash) @@ (98 :> ch.bs) @@ (102 :> ch.ff)
    @@ (110 :> ch.lf) @@ (114 :> ch.cr) @@ (116 :> ch.tab)

RECURSIVE parse_str(_, _, _)
\* the rest of a string literal from index i, acc the bytes read so far
parse_str(s, i, acc) ==
  IF i > Len(s) THEN Err
  ELSE IF s[i] = ch.quote THEN At(acc, i + 1)
  ELSE IF s[i] = ch.backslash THEN
    IF i + 1 > Len(s) THEN Err
    ELSE IF s[i + 1] = 117 THEN
      IF i + 5 > Len(s) THEN Err
      ELSE LET h == [j \in 1..4 |-> HexVal(s[i + 1 + j])]
               u == Utf8(((h[1] * 16 + h[2]) * 16 + h[3]) * 16 + h[4])
           IN IF (\E j \in 1..4 : h[j] < 0) \/ ~u.ok THEN Err
              ELSE parse_str(s, i + 6, acc \o u.val)
    ELSE IF s[i + 1] \in DOMAIN Unescape
      THEN parse_str(s, i + 2, Append(acc, Unescape[s[i + 1]]))
      ELSE Err
  ELSE IF s[i] < 32 THEN Err
  ELSE parse_str(s, i + 1, Append(acc, s[i]))

RECURSIVE parse_digits(_, _, _)
\* the digits of an integer from index i, acc the value read so far
parse_digits(s, i, acc) ==
  IF i <= Len(s) /\ IsDigit(s[i])
  THEN parse_digits(s, i + 1, acc * 10 + (s[i] - 48))
  ELSE At([t |-> "num", n |-> acc], i)

\* an unsigned integer; a leading zero followed by a digit is an error
parse_integer(s, i) ==
  IF s[i] = ch.zero
  THEN IF i + 1 <= Len(s) /\ IsDigit(s[i + 1]) THEN Err
       ELSE At([t |-> "num", n |-> 0], i + 1)
  ELSE parse_digits(s, i, 0)

\* the identifier lit (true, false, null) at index i
parse_ident(s, i, lit, tree) ==
  IF i + Len(lit) - 1 <= Len(s) /\ SubSeq(s, i, i + Len(lit) - 1) = lit
  THEN At(tree, i + Len(lit)) ELSE Err

RECURSIVE parse_value(_, _), parse_members(_, _, _), parse_elements(_, _, _)

\* the JSON value that starts at index i (whitespace already skipped)
parse_value(s, i) ==
  IF i > Len(s) THEN Err
  ELSE IF s[i] = ch.quote THEN
    LET r == parse_str(s, i + 1, <<>>)
    IN IF r.ok THEN At([t |-> "str", s |-> r.val], r.pos) ELSE Err
  ELSE IF s[i] = ch.lbrace THEN
    LET j == parse_whitespace(s, i + 1)
    IN IF j <= Len(s) /\ s[j] = ch.rbrace
       THEN At([t |-> "obj", kv |-> <<>>], j + 1)
       ELSE parse_members(s, j, <<>>)
  ELSE IF s[i] = ch.lbracket THEN
    LET j == parse_whitespace(s, i + 1)
    IN IF j <= Len(s) /\ s[j] = ch.rbracket
       THEN At([t |-> "arr", a |-> <<>>], j + 1)
       ELSE parse_elements(s, j, <<>>)
  ELSE IF s[i] = 116 THEN parse_ident(s, i, Chars("true"), [t |-> "bool", b |-> TRUE])
  ELSE IF s[i] = 102 THEN parse_ident(s, i, Chars("false"), [t |-> "bool", b |-> FALSE])
  ELSE IF s[i] = 110 THEN parse_ident(s, i, Chars("null"), [t |-> "null"])
  ELSE IF IsDigit(s[i]) THEN parse_integer(s, i)
  ELSE Err

\* the members of an object from the key at index i, acc the members read
parse_members(s, i, acc) ==
  IF i > Len(s) \/ s[i] # ch.quote THEN Err
  ELSE
    LET k == parse_str(s, i + 1, <<>>)
    IN IF ~k.ok THEN Err
       ELSE
         LET c == parse_whitespace(s, k.pos)
         IN IF c > Len(s) \/ s[c] # ch.colon THEN Err
            ELSE
              LET v == parse_value(s, parse_whitespace(s, c + 1))
              IN IF ~v.ok THEN Err
                 ELSE
                   LET e == parse_whitespace(s, v.pos)
                       all == Append(acc, [k |-> k.val, v |-> v.val])
                   IN IF e > Len(s) THEN Err
                      ELSE IF s[e] = ch.rbrace THEN At([t |-> "obj", kv |-> all], e + 1)
                      ELSE IF s[e] = ch.comma
                        THEN parse_members(s, parse_whitespace(s, e + 1), all)
                      ELSE Err

\* the elements of an array from the value at index i, acc the elements read
parse_elements(s, i, acc) ==
  LET v == parse_value(s, i)
  IN IF ~v.ok THEN Err
     ELSE
       LET e == parse_whitespace(s, v.pos)
           all == Append(acc, v.val)
       IN IF e > Len(s) THEN Err
          ELSE IF s[e] = ch.rbracket THEN At([t |-> "arr", a |-> all], e + 1)
          ELSE IF s[e] = ch.comma
            THEN parse_elements(s, parse_whitespace(s, e + 1), all)
          ELSE Err

\* one JSON document: a value, then nothing but whitespace to the end
from_slice(s) ==
  LET r == parse_value(s, parse_whitespace(s, 1))
  IN IF ~r.ok THEN Err
     ELSE IF parse_whitespace(s, r.pos) = Len(s) + 1 THEN Ok(r.val)
     ELSE Err

(***************************************************************************)
(* The message schema.  A field is its name, its Rust type and whether it  *)
(* carries skip_serializing_if = "Option::is_none"; a variant is its name, *)
(* whether it is a unit variant, and its fields in declaration order.      *)
(* A message value is a record with the field "variant" and one field per  *)
(* declared field; an Option is None or Some(v).                           *)
(***************************************************************************)
None == [some |-> FALSE]

Some(v) == [some |-> TRUE, v |-> v]

Field(name, ty, skip) == [name |-> name, ty |-> ty, skip |-> skip]

StructVariant(name, fields) == [variant |-> name, unit |-> FALSE, fields |-> fields]

UnitVariant(name) == [variant |-> name, unit |-> TRUE, fields |-> <<>>]

\* the largest u16
U16Max == 65535

ServerMessage ==
  << StructVariant("LayerChange", <<Field("new", "String", FALSE)>>),
     StructVariant("LayerNames", <<Field("names", "Vec<String>", FALSE)>>),
     StructVariant("CurrentLayerInfo",
       <<Field("name", "String", FALSE), Field("cfg_text", "String", FALSE)>>),
     StructVariant("ConfigFileReload", <<Field("new", "String", FALSE)>>),
     StructVariant("CurrentLayerName", <<Field("name", "String", FALSE)>>),
     StructVariant("MessagePush", <<Field("message", "Value", FALSE)>>),
     StructVariant("Error", <<Field("msg", "String", FALSE)>>),
     StructVariant("AuthResult",
       <<Field("success", "bool", FALSE),
         Field("session_id", "Option<String>", FALSE),
         Field("expires_in_seconds", "Option<u64>", FALSE)>>),
     UnitVariant("AuthRequired"),
     UnitVariant("SessionExpired") >>

\* #[serde(tag = "status")]
ServerResponseTag == "status"

ServerResponse ==
  << UnitVariant("Ok"),
     StructVariant("Error", <<Field("msg", "String", FALSE)>>) >>

\* the session_id field every variant but Authenticate ends with
SessionId == Field("session_id", "Option<String>", TRUE)

ClientMessage ==
  << StructVariant("Authenticate",
       <<Field("token", "String", FALSE),
         Field("client_name", "Option<String>", FALSE)>>),
     StructVariant("ChangeLayer", <<Field("new", "String", FALSE), SessionId>>),
     StructVariant("RequestLayerNames", <<SessionId>>),
     StructVariant("RequestCurrentLayerInfo", <<SessionId>>),
     StructVariant("RequestCurrentLayerName", <<SessionId>>),
     StructVariant("ActOnFakeKey",
       <<Field("name", "String", FALSE),
         Field("action", "FakeKeyActionMessage", FALSE), SessionId>>),
     StructVariant("SetMouse",
       <<Field("x", "u16", FALSE), Field("y", "u16", FALSE), SessionId>>),
     StructVariant("Reload", <<SessionId>>),
     StructVariant("ReloadNext", <<SessionId>>),
     StructVariant("ReloadPrev", <<SessionId>>),
     StructVariant("ReloadNum", <<Field("index", "usize", FALSE), SessionId>>),
     StructVariant("ReloadFile", <<Field("path", "String", FALSE), SessionId>>) >>

FakeKeyActionMessage ==
  << UnitVariant("Press"), UnitVariant("Release"), UnitVariant("Tap"),
     UnitVariant("Toggle") >>

\* the names of the variants of an enum
VariantNames(enum) == {enum[i].variant : i \in 1..Len(enum)}

\* the declaration of the variant called name
VariantOf(enum, name) == enum[CHOOSE i \in 1..Len(enum) : enum[i].variant = name]

\* the names of the fields of a variant
FieldNames(fields) == {fields[i].name : i \in 1..Len(fields)}

\* the value of variant name whose fields, in declaration order, are vals
Make(enum, name, vals) ==
  LET fields == VariantOf(enum, name).fields
  IN [n \in {"variant"} \cup FieldNames(fields) |->
        IF n = "variant" THEN name
        ELSE vals[CHOOSE i \in 1..Len(fields) : fields[i].name = n]]

IsOption(ty) == ty \in {"Option<String>", "Option<u64>"}

\* the T of Option<T>
Inner(ty) == IF ty = "Option<String>" THEN "String" ELSE "u64"

(***************************************************************************)
(* serde_json::Value.  The model keeps a Value as a tree whose objects     *)
(* have distinct keys in ascending byte order, as the map inside Value     *)
(* holds them.                                                             *)
(***************************************************************************)
RECURSIVE LexLess(_, _)
\* a < b in the order of Rust strings
LexLess(a, b) ==
  IF b = <<>> THEN FALSE
  ELSE IF a = <<>> THEN TRUE
  ELSE IF a[1] # b[1] THEN a[1] < b[1]
  ELSE LexLess(Tail(a), Tail(b))

RECURSIVE map_insert(_, _)
\* the sorted members kv with member e inserted, replacing an equal key
map_insert(kv, e) ==
  IF kv = <<>> THEN <<e>>
  ELSE IF kv[1].k = e.k THEN <<e>> \o Tail(kv)
  ELSE IF LexLess(e.k, kv[1].k) THEN <<e>> \o kv
  ELSE <<kv[1]>> \o map_insert(Tail(kv), e)

RECURSIVE value_deserialize(_), map_collect(_, _)
\* the Value a parsed tree becomes
value_deserialize(tree) ==
  CASE tree.t = "arr" ->
         [t |-> "arr", a |-> [i \in 1..Len(tree.a) |-> value_deserialize(tree.a[i])]]
    [] tree.t = "obj" -> [t |-> "obj", kv |-> map_collect(tree.kv, <<>>)]
    [] OTHER -> tree

\* the members kv inserted one after another into the map acc
map_collect(kv, acc) ==
  IF kv = <<>> THEN acc
  ELSE map_collect(Tail(kv),
         map_insert(acc, [k |-> kv[1].k, v |-> value_deserialize(kv[1].v)]))

(***************************************************************************)
(* derive(Serialize): a value to the tree serde_json writes.               *)
(***************************************************************************)
RECURSIVE serialize_field(_, _), serialize_enum(_, _)

\* serialize_struct with skip_serializing_if ignored
serialize_struct_keep_none(fields, v) ==
  [i \in 1..Len(fields) |->
     [k |-> Chars(fields[i].name), v |-> serialize_field(fields[i].ty, v[fields[i].name])]]

\* the fields of a struct variant, an absent skip_serializing_if field left out
serialize_struct(fields, v) ==
  LET kept == SelectSeq(fields, LAMBDA f : ~(f.skip /\ v[f.name] = None))
  IN [i \in 1..Len(kept) |->
        [k |-> Chars(kept[i].name), v |-> serialize_field(kept[i].ty, v[kept[i].name])]]

\* serialize_enum with a unit variant written as a map to null
serialize_enum_unit_as_map(enum, v) ==
  LET e == VariantOf(enum, v.variant)
  IN [t |-> "obj",
      kv |-> <<[k |-> Chars(e.variant),
                v |-> IF e.unit THEN [t |-> "null"]
                      ELSE [t |-> "obj", kv |-> serialize_struct(e.fields, v)]]>>]

\* an externally tagged enum (the serde default)
serialize_enum(enum, v) ==
  LET e == VariantOf(enum, v.variant)
  IN IF e.unit THEN [t |-> "str", s |-> Chars(e.variant)]
     ELSE [t |-> "obj",
           kv |-> <<[k |-> Chars(e.variant),
                     v |-> [t |-> "obj", kv |-> serialize_struct(e.fields, v)]]>>]

\* a field of Rust type ty
serialize_field(ty, x) ==
  CASE ty = "String" -> [t |-> "str", s |-> x]
    [] ty = "bool" -> [t |-> "bool", b |-> x]
    [] ty \in {"u16", "u64", "usize"} -> [t |-> "num", n |-> x]
    [] IsOption(ty) ->
         IF x = None THEN [t |-> "null"] ELSE serialize_field(Inner(ty), x.v)
    [] ty = "Vec<String>" ->
         [t |-> "arr", a |-> [i \in 1..Len(x) |-> [t |-> "str", s |-> x[i]]]]
    [] ty = "FakeKeyActionMessage" -> serialize_enum(FakeKeyActionMessage, x)
    [] ty = "Value" -> x

\* serialize_tagged with the tag written after the fields
serialize_tagged_last(enum, tag, v) ==
  LET e == VariantOf(enum, v.variant)
  IN [t |-> "obj",
      kv |-> serialize_struct(e.fields, v)
               \o <<[k |-> Chars(tag), v |-> [t |-> "str", s |-> Chars(e.variant)]]>>]

\* an internally tagged enum: the tag first, then the variant's fields
serialize_tagged(enum, tag, v) ==
  LET e == VariantOf(enum, v.variant)
  IN [t |-> "obj",
      kv |-> <<[k |-> Chars(tag), v |-> [t |-> "str", s |-> Chars(e.variant)]]>>
               \o serialize_struct(e.fields, v)]

(***************************************************************************)
(* derive(Deserialize): a parsed tree to a value, or Err.                  *)
(***************************************************************************)
\* Named with an unknown name falling back to the first variant
Named_or_first(enum, s) ==
  IF \E n \in VariantNames(enum) : Chars(n) = s
  THEN {n \in VariantNames(enum) : Chars(n) = s}
  ELSE {enum[1].variant}

\* the variant names whose bytes are s
Named(enum, s) == {n \in VariantNames(enum) : Chars(n) = s}

RECURSIVE deserialize_field(_, _), deserialize_enum(_, _)

\* deserialize_struct with every absent field an error, Option or not
deserialize_struct_strict(name, fields, content) ==
  IF content.t = "obj" THEN
    LET kv == content.kv
        at(f) == {i \in 1..Len(kv) : kv[i].k = Chars(f.name)}
        r == [j \in 1..Len(fields) |->
                IF at(fields[j]) = {} THEN Err
                ELSE deserialize_field(fields[j].ty,
                       kv[CHOOSE i \in at(fields[j]) : TRUE].v)]
    IN IF \E j \in 1..Len(fields) : Cardinality(at(fields[j])) # 1 THEN Err
       ELSE IF \E j \in 1..Len(fields) : ~r[j].ok THEN Err
       ELSE Ok(Make(<<StructVariant(name, fields)>>, name,
                    [j \in 1..Len(fields) |-> r[j].val]))
  ELSE Err

\* deserialize_struct with session_id never read (skip_deserializing)
deserialize_struct_skip_session_id(name, fields, content) ==
  IF content.t = "obj" THEN
    LET kv == content.kv
        at(f) == {i \in 1..Len(kv) : kv[i].k = Chars(f.name)}
        r == [j \in 1..Len(fields) |->
                IF fields[j].name = "session_id" THEN Ok(None)
                ELSE IF at(fields[j]) = {}
                THEN IF IsOption(fields[j].ty) THEN Ok(None) ELSE Err
                ELSE deserialize_field(fields[j].ty,
                       kv[CHOOSE i \in at(fields[j]) : TRUE].v)]
    IN IF \E j \in 1..Len(fields) : Cardinality(at(fields[j])) > 1 THEN Err
       ELSE IF \E j \in 1..Len(fields) : ~r[j].ok THEN Err
       ELSE Ok(Make(<<StructVariant(name, fields)>>, name,
                    [j \in 1..Len(fields) |-> r[j].val]))
  ELSE Err

\* the fields of a struct variant from a map or, by position, from a
\* sequence; unknown keys are ignored, a repeated field is an error, an
\* absent Option field is None and any other absent field is an error
deserialize_struct(name, fields, content) ==
  IF content.t = "obj" THEN
    LET kv == content.kv
        at(f) == {i \in 1..Len(kv) : kv[i].k = Chars(f.name)}
        r == [j \in 1..Len(fields) |->
                IF at(fields[j]) = {}
                THEN IF IsOption(fields[j].ty) THEN Ok(None) ELSE Err
                ELSE deserialize_field(fields[j].ty,
                       kv[CHOOSE i \in at(fields[j]) : TRUE].v)]
    IN IF \E j \in 1..Len(fields) : Cardinality(at(fields[j])) > 1 THEN Err
       ELSE IF \E j \in 1..Len(fields) : ~r[j].ok THEN Err
       ELSE Ok(Make(<<StructVariant(name, fields)>>, name,
                    [j \in 1..Len(fields) |-> r[j].val]))
  ELSE IF content.t = "arr" THEN
    LET r == [j \in 1..Len(fields) |->
                IF j > Len(content.a) THEN Err
                ELSE deserialize_field(fields[j].ty, content.a[j])]
    IN IF Len(content.a) # Len(fields) THEN Err
       ELSE IF \E j \in 1..Len(fields) : ~r[j].ok THEN Err
       ELSE Ok(Make(<<StructVariant(name, fields)>>, name,
                    [j \in 1..Len(fields) |-> r[j].val]))
  ELSE Err

\* an externally tagged enum: a bare string names a unit variant, an object
\* of exactly one member names the variant by its key
deserialize_enum(enum, tree) ==
  IF tree.t = "str" THEN
    IF Named(enum, tree.s) = {} THEN Err
    ELSE LET e == VariantOf(enum, CHOOSE n \in Named(enum, tree.s) : TRUE)
         IN IF e.unit THEN Ok(Make(enum, e.variant, <<>>)) ELSE Err
  ELSE IF tree.t = "obj" THEN
    IF Len(tree.kv) # 1 \/ Named(enum, tree.kv[1].k) = {} THEN Err
    ELSE LET e == VariantOf(enum, CHOOSE n \in Named(enum, tree.kv[1].k) : TRUE)
         IN IF e.unit
            THEN IF tree.kv[1].v.t = "null" THEN Ok(Make(enum, e.variant, <<>>))
                 ELSE Err
            ELSE deserialize_struct(e.variant, e.fields, tree.kv[1].v)
  ELSE Err

\* a field of Rust type ty
deserialize_field(ty, tree) ==
  CASE ty = "String" -> IF tree.t = "str" THEN Ok(tree.s) ELSE Err
    [] ty = "bool" -> IF tree.t = "bool" THEN Ok(tree.b) ELSE Err
    [] ty = "u16" -> IF tree.t = "num" /\ tree.n <= U16Max THEN Ok(tree.n) ELSE Err
    [] ty \in {"u64", "usize"} -> IF tree.t = "num" THEN Ok(tree.n) ELSE Err
    [] IsOption(ty) ->
         IF tree.t = "null" THEN Ok(None)
         ELSE LET r == deserialize_field(Inner(ty), tree)
              IN IF r.ok THEN Ok(Some(r.val)) ELSE Err
    [] ty = "Vec<String>" ->
         IF tree.t = "arr" /\ \A i \in 1..Len(tree.a) : tree.a[i].t = "str"
         THEN Ok([i \in 1..Len(tree.a) |-> tree.a[i].s]) ELSE Err
    [] ty = "FakeKeyActionMessage" -> deserialize_enum(FakeKeyActionMessage, tree)
    [] ty = "Value" -> Ok(value_deserialize(tree))

\* an internally tagged enum: the tag is the member called tag of a map, or
\* the first element of a sequence; the rest is the variant's content
deserialize_tagged(enum, tag, tree) ==
  IF tree.t = "obj" THEN
    LET kv == tree.kv
        tags == {i \in 1..Len(kv) : kv[i].k = Chars(tag)}
        tv == kv[CHOOSE i \in tags : TRUE].v
        rest == [t |-> "obj", kv |-> SelectSeq(kv, LAMBDA m : m.k # Chars(tag))]
    IN IF Cardinality(tags) # 1 THEN Err
       ELSE IF tv.t # "str" \/ Named(enum, tv.s) = {} THEN Err
       ELSE LET e == VariantOf(enum, CHOOSE n \in Named(enum, tv.s) : TRUE)
            IN IF e.unit THEN Ok(Make(enum, e.variant, <<>>))
               ELSE deserialize_struct(e.variant, e.fields, rest)
  ELSE IF tree.t = "arr" THEN
    IF tree.a = <<>> THEN Err
    ELSE IF tree.a[1].t # "str" \/ Named(enum, tree.a[1].s) = {} THEN Err
    ELSE LET e == VariantOf(enum, CHOOSE n \in Named(enum, tree.a[1].s) : TRUE)
             rest == [t |-> "arr", a |-> Tail(tree.a)]
         IN IF e.unit THEN IF rest.a = <<>> THEN Ok(Make(enum, e.variant, <<>>)) ELSE Err
            ELSE deserialize_struct(e.variant, e.fields, rest)
  ELSE Err

(***************************************************************************)
(* The functions of the crate.                                             *)
(***************************************************************************)
\* ServerResponse::as_bytes
ServerResponse_as_bytes(self) ==
  LET msg == to_vec(serialize_tagged(ServerResponse, ServerResponseTag, self))
  IN Append(msg, ch.lf)

\* ServerMessage::as_bytes
ServerMessage_as_bytes(self) ==
  LET msg == to_vec(serialize_enum(ServerMessage, self))
  IN Append(msg, ch.lf)

\* serde_json::to_vec of a ClientMessage
ClientMessage_to_vec(self) == to_vec(serialize_enum(ClientMessage, self))

\* <ClientMessage as FromStr>::from_str
ClientMessage_from_str(s) ==
  LET p == from_slice(s)
  IN IF p.ok THEN deserialize_enum(ClientMessage, p.val) ELSE Err

\* serde_json::from_slice::<ServerMessage>
ServerMessage_from_slice(s) ==
  LET p == from_slice(s)
  IN IF p.ok THEN deserialize_enum(ServerMessage, p.val) ELSE Err

\* ServerResponse_from_slice with the enum read as externally tagged
ServerResponse_from_slice_untagged(s) ==
  LET p == from_slice(s)
  IN IF p.ok THEN deserialize_enum(ServerResponse, p.val) ELSE Err

\* serde_json::from_slice::<ServerResponse>
ServerResponse_from_slice(s) ==
  LET p == from_slice(s)
  IN IF p.ok THEN deserialize_tagged(ServerResponse, ServerResponseTag, p.val) ELSE Err

(***************************************************************************)
(* The values the model draws its inputs from.                             *)
(***************************************************************************)
\* the bytes strings are drawn over: a, line feed, quote, backslash and the
\* control character 0x01
Alphabet == {97, ch.lf, ch.quote, ch.backslash, 1}

\* every string over Alphabet up to MaxStrLen, and the strings of the
\* documented examples
Strings ==
  UNION {[1..n -> Alphabet] : n \in 0..MaxStrLen}
    \cup {Chars("qwerty"), Chars("abc"), Chars("test")}

\* the string of the messages framed on a stream: it holds a line feed
StreamStrings == {<<97, ch.lf, 97>>}

Optional(S) == {None} \cup {Some(x) : x \in S}

U16s == {0, 7, U16Max}

Indexes == {0, 12}

Seconds == {0, 3600}

Str(s) == [t |-> "str", s |-> s]

Obj(kv) == [t |-> "obj", kv |-> kv]

\* structured payloads of MessagePush, among them objects that look like a
\* ServerResponse
Values ==
  { [t |-> "null"], [t |-> "bool", b |-> TRUE], [t |-> "num", n |-> 7],
    Str(<<97, ch.lf, ch.quote>>),
    [t |-> "arr", a |-> <<Str(Chars("a")), [t |-> "num", n |-> 0]>>],
    Obj(<<[k |-> Chars("status"), v |-> Str(Chars("Ok"))]>>),
    Obj(<<[k |-> Chars("msg"), v |-> Str(Chars("test"))],
          [k |-> Chars("status"), v |-> Str(Chars("Error"))]>>) }

StreamValues ==
  { Str(<<ch.lf>>), Obj(<<[k |-> Chars("status"), v |-> Str(Chars("Ok"))]>>) }

FakeKeyActionMessages ==
  {Make(FakeKeyActionMessage, n, <<>>) : n \in VariantNames(FakeKeyActionMessage)}

\* every ClientMessage with strings from S
ClientMessagesOver(S) ==
  {Make(ClientMessage, "Authenticate", <<t, c>>) : t \in S, c \in Optional(S)}
    \cup {Make(ClientMessage, "ChangeLayer", <<n, sid>>) : n \in S, sid \in Optional(S)}
    \cup {Make(ClientMessage, v, <<sid>>) :
            v \in {"RequestLayerNames", "RequestCurrentLayerInfo",
                   "RequestCurrentLayerName", "Reload", "ReloadNext", "ReloadPrev"},
            sid \in Optional(S)}
    \cup {Make(ClientMessage, "ActOnFakeKey", <<n, a, sid>>) :
            n \in S, a \in FakeKeyActionMessages, sid \in Optional(S)}
    \cup {Make(ClientMessage, "SetMouse", <<x, y, sid>>) :
            x \in U16s, y \in U16s, sid \in Optional(S)}
    \cup {Make(ClientMessage, "ReloadNum", <<i, sid>>) : i \in Indexes, sid \in Optional(S)}
    \cup {Make(ClientMessage, "ReloadFile", <<p, sid>>) : p \in S, sid \in Optional(S)}

\* every ServerMessage with strings from S, payloads from V, lifetimes from T
ServerMessagesOver(S, V, T) ==
  {Make(ServerMessage, v, <<s>>) :
     v \in {"LayerChange", "ConfigFileReload", "CurrentLayerName", "Error"}, s \in S}
    \cup {Make(ServerMessage, "LayerNames", <<ns>>) :
            ns \in UNION {[1..n -> S] : n \in 0..MaxNames}}
    \cup {Make(ServerMessage, "CurrentLayerInfo", <<n, c>>) : n \in S, c \in S}
    \cup {Make(ServerMessage, "MessagePush", <<m>>) : m \in V}
    \cup {Make(ServerMessage, "AuthResult", <<ok, sid, e>>) :
            ok \in BOOLEAN, sid \in Optional(S), e \in Optional(T)}
    \cup {Make(ServerMessage, v, <<>>) : v \in {"AuthRequired", "SessionExpired"}}

\* every ServerResponse with strings from S
ServerResponsesOver(S) ==
  {Make(ServerResponse, "Ok", <<>>)}
    \cup {Make(ServerResponse, "Error", <<m>>) : m \in S}

ClientMessages == ClientMessagesOver(Strings)

ServerMessages == ServerMessagesOver(Strings, Values, Seconds)

ServerResponses == ServerResponsesOver(Strings)

(***************************************************************************)
(* Inbound payloads built field by field: the JSON a peer would send for   *)
(* variant body of an enum, with only the fields in present, and with the  *)
(* discriminator tag, which may be a name the enum does not declare or     *)
(* NoTag for no discriminator at all.                                      *)
(***************************************************************************)
Enums == {"ClientMessage", "ServerMessage", "ServerResponse"}

EnumOf(name) ==
  CASE name = "ClientMessage" -> ClientMessage
    [] name = "ServerMessage" -> ServerMessage
    [] name = "ServerResponse" -> ServerResponse

NoTag == "-"

\* a well-typed JSON value for a field of Rust type ty
Sample(ty, flag) ==
  CASE ty = "String" -> Str(Chars("a"))
    [] ty = "Option<String>" -> Str(Chars("abc"))
    [] ty = "bool" -> [t |-> "bool", b |-> flag]
    [] ty \in {"u16", "u64", "usize", "Option<u64>"} -> [t |-> "num", n |-> 7]
    [] ty = "Vec<String>" -> [t |-> "arr", a |-> <<Str(Chars("a"))>>]
    [] ty = "FakeKeyActionMessage" -> Str(Chars("Tap"))
    [] ty = "Value" -> [t |-> "null"]

\* the payloads shaped after the variants of enum en
PayloadsOf(en) ==
  UNION { { [enum |-> en, tag |-> tag, body |-> EnumOf(en)[i].variant,
             present |-> present, flag |-> flag] :
              tag \in {EnumOf(en)[i].variant, "Bogus", NoTag},
              present \in SUBSET FieldNames(EnumOf(en)[i].fields),
              flag \in IF \E j \in 1..Len(EnumOf(en)[i].fields) :
                            EnumOf(en)[i].fields[j].ty = "bool"
                       THEN BOOLEAN ELSE {TRUE} } :
          i \in 1..Len(EnumOf(en)) }

Payloads == UNION {PayloadsOf(en) : en \in Enums}

\* the JSON text of payload p
PayloadBytes(p) ==
  LET e == VariantOf(EnumOf(p.enum), p.body)
      kept == SelectSeq(e.fields, LAMBDA f : f.name \in p.present)
      members == [i \in 1..Len(kept) |->
                    [k |-> Chars(kept[i].name), v |-> Sample(kept[i].ty, p.flag)]]
  IN to_vec(
       IF p.enum = "ServerResponse"
       THEN IF p.tag = NoTag THEN Obj(members)
            ELSE Obj(<<[k |-> Chars(ServerResponseTag), v |-> Str(Chars(p.tag))]>>
                       \o members)
       ELSE IF p.tag = NoTag THEN Obj(members)
            ELSE IF e.unit THEN Str(Chars(p.tag))
            ELSE Obj(<<[k |-> Chars(p.tag), v |-> Obj(members)]>>))

\* inbound lines that are not the encoding of any value: other JSON
\* shapes, stray whitespace, damaged text
Texts ==
  { Chars("[]"), Chars("null"), Chars(" { \"Reload\" : { } } "),
    Chars("{\"Reload\":{},}"), Chars("{\"Reload\":{}}x"), Chars("\"Reload\""),
    Chars("{\"status\":\"Ok\""), <<ch.quote, ch.lf, ch.quote>>,
    to_vec(Obj(<<[k |-> Chars("AuthRequired"), v |-> [t |-> "null"]]>>)),
    to_vec(Obj(<<[k |-> Chars("AuthRequired"), v |-> Obj(<<>>)]>>)),
    to_vec(Obj(<<[k |-> Chars("Reload"), v |-> Obj(<<>>)],
                 [k |-> Chars("ReloadNext"), v |-> Obj(<<>>)]>>)),
    to_vec(Obj(<<[k |-> Chars("Reload"),
                  v |-> Obj(<<[k |-> Chars("session_id"), v |-> [t |-> "null"]]>>)]>>)),
    to_vec(Obj(<<[k |-> Chars("Reload"),
                  v |-> Obj(<<[k |-> Chars("extra"), v |-> [t |-> "num", n |-> 7]]>>)]>>)),
    to_vec(Obj(<<[k |-> Chars("ChangeLayer"),
                  v |-> Obj(<<[k |-> Chars("new"), v |-> Str(Chars("a"))],
                              [k |-> Chars("new"), v |-> Str(Chars("a"))]>>)]>>)),
    to_vec(Obj(<<[k |-> Chars("ChangeLayer"),
                  v |-> Obj(<<[k |-> Chars("new"), v |-> [t |-> "num", n |-> 7]]>>)]>>)),
    to_vec(Obj(<<[k |-> Chars("ChangeLayer"),
                  v |-> [t |-> "arr", a |-> <<Str(Chars("a"))>>]]>>)),
    to_vec(Obj(<<[k |-> Chars("ChangeLayer"),
                  v |-> [t |-> "arr", a |-> <<Str(Chars("a")), [t |-> "null"]>>]]>>)),
    to_vec(Obj(<<[k |-> Chars("SetMouse"),
                  v |-> Obj(<<[k |-> Chars("x"), v |-> [t |-> "num", n |-> U16Max + 1]],
                              [k |-> Chars("y"), v |-> [t |-> "num", n |-> 0]]>>)]>>)),
    to_vec(Obj(<<[k |-> Chars("MessagePush"),
                  v |-> Obj(<<[k |-> Chars("message"),
                               v |-> Obj(<<[k |-> Chars("status"), v |-> Str(Chars("Ok"))],
                                           [k |-> Chars("msg"), v |-> Str(<<92, 1>>)],
                                           [k |-> Chars("status"), v |-> Str(Chars("Error"))]>>)]>>)]>>)),
    to_vec(Obj(<<[k |-> Chars("status"), v |-> [t |-> "num", n |-> 7]]>>)),
    to_vec(Obj(<<[k |-> Chars("msg"), v |-> Str(Chars("test"))],
                 [k |-> Chars("extra"), v |-> [t |-> "null"]],
                 [k |-> Chars("status"), v |-> Str(Chars("Error"))]>>)),
    to_vec([t |-> "arr", a |-> <<Str(Chars("Ok"))>>]),
    to_vec([t |-> "arr", a |-> <<Str(Chars("Error")), Str(Chars("test"))>>]) }

(***************************************************************************)
(* The state.  One conversion: kind is the operation, value the value or   *)
(* the payload it is given, bytes what it produces or is handed, decoded   *)
(* what those bytes decode to as each of the three message types, and pc   *)
(* how far the conversion has come.  One connection: stream is the unread   *)
(* bytes from server to client, sent the messages framed on it so far and  *)
(* delivered what its reader has decoded so far.                           *)
(***************************************************************************)
NoValue == [variant |-> "-"]

\* the bytes s decoded as each of the three top-level types
Decode(s) ==
  [ClientMessage |-> ClientMessage_from_str(s),
   ServerMessage |-> ServerMessage_from_slice(s),
   ServerResponse |-> ServerResponse_from_slice(s)]

NotDecoded == [ClientMessage |-> Err, ServerMessage |-> Err, ServerResponse |-> Err]

\* a conversion is about to run on one of the inputs
Init ==
  /\ pc = "ready"
  /\ \/ kind = "ClientMessage" /\ value \in ClientMessages
     \/ kind = "ServerMessage" /\ value \in ServerMessages
     \/ kind = "ServerResponse" /\ value \in ServerResponses
     \/ kind = "payload" /\ value \in Payloads
     \/ kind = "text" /\ value \in {[text |-> t] : t \in Texts}
  /\ bytes = <<>>
  /\ decoded = NotDecoded
  /\ stream = <<>>
  /\ sent = <<>>
  /\ delivered = <<>>

\* a client serializes a ClientMessage
EncodeClientMessage ==
  /\ pc = "ready" /\ kind = "ClientMessage"
  /\ bytes' = ClientMessage_to_vec(value)
  /\ pc' = "encoded"
  /\ UNCHANGED <<kind, value, decoded, stream, sent, delivered>>

\* the server encodes a ServerMessage with as_bytes
EncodeServerMessage ==
  /\ pc = "ready" /\ kind = "ServerMessage"
  /\ bytes' = ServerMessage_as_bytes(value)
  /\ pc' = "encoded"
  /\ UNCHANGED <<kind, value, decoded, stream, sent, delivered>>

\* the server encodes a ServerResponse with as_bytes
EncodeServerResponse ==
  /\ pc = "ready" /\ kind = "ServerResponse"
  /\ bytes' = ServerResponse_as_bytes(value)
  /\ pc' = "encoded"
  /\ UNCHANGED <<kind, value, decoded, stream, sent, delivered>>

\* a peer writes the payload that value describes
SendPayload ==
  /\ pc = "ready" /\ kind = "payload"
  /\ bytes' = PayloadBytes(value)
  /\ pc' = "encoded"
  /\ UNCHANGED <<kind, value, decoded, stream, sent, delivered>>

\* a peer writes the line value.text
SendText ==
  /\ pc = "ready" /\ kind = "text"
  /\ bytes' = value.text
  /\ pc' = "encoded"
  /\ UNCHANGED <<kind, value, decoded, stream, sent, delivered>>

\* the receiver parses the bytes, as each of the three types
Receive ==
  /\ pc = "encoded"
  /\ decoded' = Decode(bytes)
  /\ pc' = "done"
  /\ UNCHANGED <<kind, value, bytes, stream, sent, delivered>>

Next ==
  \/ EncodeClientMessage
  \/ EncodeServerMessage
  \/ EncodeServerResponse
  \/ SendPayload
  \/ SendText
  \/ Receive

Spec == Init /\ [][Next]_vars

(***************************************************************************)
(* One connection: the server appends as_bytes outputs to the stream, the  *)
(* reader takes one line at a time.                                        *)
(***************************************************************************)
StreamMessages == ServerMessagesOver(StreamStrings, StreamValues, {3600})

StreamResponses == ServerResponsesOver(StreamStrings)

\* the server pushes ServerMessage m
WriteMessage(m) ==
  /\ Len(sent) < MaxSent
  /\ stream' = stream \o ServerMessage_as_bytes(m)
  /\ sent' = Append(sent, [enum |-> "ServerMessage", msg |-> m])
  /\ UNCHANGED <<pc, kind, value, bytes, decoded, delivered>>

\* the server replies with ServerResponse r
WriteResponse(r) ==
  /\ Len(sent) < MaxSent
  /\ stream' = stream \o ServerResponse_as_bytes(r)
  /\ sent' = Append(sent, [enum |-> "ServerResponse", msg |-> r])
  /\ UNCHANGED <<pc, kind, value, bytes, decoded, delivered>>

\* the index of the first line feed of s, 0 if it has none
FirstLf(s) ==
  IF \E i \in 1..Len(s) : s[i] = ch.lf
  THEN CHOOSE i \in 1..Len(s) : s[i] = ch.lf /\ \A j \in 1..(i - 1) : s[j] # ch.lf
  ELSE 0

\* what a reader makes of one line: a ServerResponse if it decodes as one,
\* else a ServerMessage, else a decode error
Deliver(line) ==
  LET r == ServerResponse_from_slice(line)
      m == ServerMessage_from_slice(line)
  IN IF r.ok THEN [enum |-> "ServerResponse", msg |-> r.val]
     ELSE IF m.ok THEN [enum |-> "ServerMessage", msg |-> m.val]
     ELSE [enum |-> "DecodeError", msg |-> NoValue]

\* the reader consumes the stream up to and including the next line feed
ReadLine ==
  /\ FirstLf(stream) > 0
  /\ delivered' = Append(delivered, Deliver(SubSeq(stream, 1, FirstLf(stream) - 1)))
  /\ stream' = SubSeq(stream, FirstLf(stream) + 1, Len(stream))
  /\ UNCHANGED <<pc, kind, value, bytes, decoded, sent>>

NextStream ==
  \/ \E m \in StreamMessages : WriteMessage(m)
  \/ \E r \in StreamResponses : WriteResponse(r)
  \/ ReadLine

\* no conversion pending, nothing framed yet
InitStream ==
  /\ pc = "done"
  /\ kind = "idle"
  /\ value = NoValue
  /\ bytes = <<>>
  /\ decoded = NotDecoded
  /\ stream = <<>>
  /\ sent = <<>>
  /\ delivered = <<>>

SpecStream == InitStream /\ [][NextStream]_vars

(***************************************************************************)
(* Properties.                                                             *)
(***************************************************************************)
\* sub occurs in s as a run of consecutive bytes
Contains(s, sub) ==
  \E i \in 1..(Len(s) - Len(sub) + 1) : SubSeq(s, i, i + Len(sub) - 1) = sub

\* the number of line feeds in s
CountLf(s) == Cardinality({i \in 1..Len(s) : s[i] = ch.lf})

Converted == pc = "done" /\ kind \in Enums

\* the declaration of the variant of the value just converted
Declared == VariantOf(EnumOf(kind), value.variant)

\* the members of the object that holds the fields in the JSON text b of a
\* value of the enum called en: the top-level object of a ServerResponse,
\* the object under the variant's name for the others; none for a text
\* that is not an object
WireMembers(en, b) ==
  LET p == from_slice(b)
  IN IF ~p.ok \/ p.val.t # "obj" THEN <<>>
     ELSE IF en = "ServerResponse" THEN p.val.kv
     ELSE IF Len(p.val.kv) = 1 /\ p.val.kv[1].v.t = "obj" THEN p.val.kv[1].v.kv
     ELSE <<>>

WireKeys(en, b) == {WireMembers(en, b)[i].k : i \in 1..Len(WireMembers(en, b))}

ExampleChangeLayer ==
  Make(ClientMessage, "ChangeLayer", <<Chars("qwerty"), Some(Chars("abc"))>>)

\* C1: decoding the encoding of any ClientMessage, ServerMessage or
\* ServerResponse succeeds and yields the value that was encoded, and the
\* encoding of ChangeLayer{new:"qwerty", session_id:Some("abc")} contains
\* "new":"qwerty" and "session_id":"abc".
C1_RoundTrip ==
  Converted =>
    /\ decoded[kind] = Ok(value)
    /\ (kind = "ClientMessage" /\ value = ExampleChangeLayer) =>
         /\ Contains(bytes, Chars("\"new\":\"qwerty\""))
         /\ Contains(bytes, Chars("\"session_id\":\"abc\""))

C1_Witness ==
  /\ Converted /\ kind = "ClientMessage" /\ value = ExampleChangeLayer
  /\ decoded.ClientMessage = Ok(ExampleChangeLayer)

\* C2: in the encoding of every message of every type, an optional field
\* that is absent in the value has no key in the payload.
C2_AbsentOptionalOmitted ==
  Converted =>
    \A i \in 1..Len(Declared.fields) :
      (IsOption(Declared.fields[i].ty) /\ value[Declared.fields[i].name] = None)
        => Chars(Declared.fields[i].name) \notin WireKeys(kind, bytes)

\* C3: a ClientMessage other than Authenticate with session_id None encodes
\* with no session_id key and decodes back to session_id None; with
\* session_id Some(s) its payload has the member "session_id" with the
\* string s as its value.
C3_SessionIdOmittedOrCarried ==
  (Converted /\ kind = "ClientMessage" /\ value.variant # "Authenticate") =>
    IF value.session_id = None
    THEN /\ ~Contains(bytes, Chars("\"session_id\""))
         /\ Chars("session_id") \notin WireKeys(kind, bytes)
         /\ decoded.ClientMessage.ok
         /\ decoded.ClientMessage.val.session_id = None
    ELSE /\ \E i \in 1..Len(WireMembers(kind, bytes)) :
              WireMembers(kind, bytes)[i] =
                [k |-> Chars("session_id"), v |-> Str(value.session_id.v)]
         /\ Cardinality({i \in 1..Len(WireMembers(kind, bytes)) :
              WireMembers(kind, bytes)[i].k = Chars("session_id")}) = 1

C3_Witness ==
  /\ Converted /\ kind = "ClientMessage" /\ value.variant = "Reload"
  /\ value.session_id = None
  /\ bytes = Chars("{\"Reload\":{}}")
  /\ decoded.ClientMessage = Ok(value)

\* C4: a payload whose discriminator is missing or is not a declared
\* variant name of the type it is decoded as is a decode error, and the
\* empty object is a decode error for all three types.
C4_TagExhaustive ==
  (pc = "done" /\ kind = "payload") =>
    /\ value.tag \notin VariantNames(EnumOf(value.enum)) => ~decoded[value.enum].ok
    /\ bytes = Chars("{}") => \A en \in Enums : ~decoded[en].ok

C4_Witness ==
  /\ pc = "done" /\ kind = "payload" /\ value.tag = "Bogus"
  /\ value.enum = "ClientMessage" /\ value.body = "Authenticate"
  /\ value.present = {"token", "client_name"}
  /\ ~decoded.ClientMessage.ok

\* the bytes as_bytes produced for an item of sent
Frame(item) ==
  IF item.enum = "ServerMessage" THEN ServerMessage_as_bytes(item.msg)
  ELSE ServerResponse_as_bytes(item.msg)

\* C5: every framed message has exactly one line feed and it is its last
\* byte, and the reader obtains the framed messages, in the order they
\* were framed, one per line.
C5_FramingFifo ==
  /\ \A i \in 1..Len(sent) :
       CountLf(Frame(sent[i])) = 1 /\ Frame(sent[i])[Len(Frame(sent[i]))] = ch.lf
  /\ Len(delivered) <= Len(sent)
  /\ \A i \in 1..Len(delivered) : delivered[i] = sent[i]
  /\ CountLf(stream) = Len(sent) - Len(delivered)
  /\ stream = <<>> => delivered = sent

C5_Witness ==
  /\ Len(sent) = MaxSent /\ delivered = sent /\ stream = <<>>
  /\ sent[1] = [enum |-> "ServerMessage",
                msg |-> Make(ServerMessage, "LayerChange", <<<<97, ch.lf, 97>>>>)]
  /\ sent[2].enum = "ServerResponse"

\* C6: ServerResponse::Ok.as_bytes() is {"status":"Ok"} and a line feed;
\* ServerResponse::Error{msg}.as_bytes() is {"status":"Error","msg": then
\* msg as one JSON string, then } and a line feed.
C6_ServerResponseBytes ==
  (Converted /\ kind = "ServerResponse") =>
    IF value.variant = "Ok"
    THEN bytes = Chars("{\"status\":\"Ok\"}") \o <<ch.lf>>
    ELSE LET prefix == Chars("{\"status\":\"Error\",\"msg\":")
             n == Len(bytes)
         IN /\ n >= Len(prefix) + 4
            /\ SubSeq(bytes, 1, Len(prefix)) = prefix
            /\ SubSeq(bytes, n - 1, n) = Chars("}") \o <<ch.lf>>
            /\ bytes[Len(prefix) + 1] = ch.quote
            /\ parse_str(SubSeq(bytes, 1, n - 2), Len(prefix) + 2, <<>>)
                 = At(value.msg, n - 1)
            /\ value.msg = Chars("test") =>
                 bytes = Chars("{\"status\":\"Error\",\"msg\":\"test\"}") \o <<ch.lf>>

C6_Witness ==
  /\ Converted /\ kind = "ServerResponse" /\ value.variant = "Error"
  /\ value.msg = Chars("test")
  /\ bytes = Chars("{\"status\":\"Error\",\"msg\":\"test\"}") \o <<ch.lf>>

\* the names of the fields of a variant that are not Option
Required(fields) ==
  {fields[i].name : i \in {j \in 1..Len(fields) : ~IsOption(fields[j].ty)}}

\* C7: a payload with a declared discriminator decodes if and only if it
\* has every required field of that variant, and every optional field it
\* lacks is None in the decoded value.
C7_RequiredAndOptionalFields ==
  (pc = "done" /\ kind = "payload" /\ value.tag = value.body) =>
    LET fields == VariantOf(EnumOf(value.enum), value.body).fields
        r == decoded[value.enum]
    IN /\ r.ok <=> Required(fields) \subseteq value.present
       /\ r.ok => /\ r.val.variant = value.body
                  /\ \A n \in FieldNames(fields) \ Required(fields) :
                       n \notin value.present => r.val[n] = None

C7_Witness ==
  /\ pc = "done" /\ kind = "payload" /\ value.enum = "ServerMessage"
  /\ value.tag = "AuthResult" /\ value.body = "AuthResult"
  /\ value.present = {"success"}
  /\ decoded.ServerMessage.ok
  /\ decoded.ServerMessage.val.session_id = None
  /\ decoded.ServerMessage.val.expires_in_seconds = None

\* session_id and expires_in_seconds are both present if success, both
\* absent if not
AuthResultConvention(v) ==
  IF v.success THEN v.session_id # None /\ v.expires_in_seconds # None
  ELSE v.session_id = None /\ v.expires_in_seconds = None

\* C8 as stated: every AuthResult that is encoded with as_bytes or obtained
\* from a successful decode has session_id and expires_in_seconds present
\* if and only if success is true.
C8_AuthResultAlwaysConventional ==
  pc = "done" =>
    /\ (kind = "ServerMessage" /\ value.variant = "AuthResult")
         => AuthResultConvention(value)
    /\ (decoded.ServerMessage.ok /\ decoded.ServerMessage.val.variant = "AuthResult")
         => AuthResultConvention(decoded.ServerMessage.val)

\* C8, amended: the codec neither enforces nor disturbs the convention.  An
\* AuthResult decodes from as_bytes to a value that follows the convention
\* exactly when the encoded value does, and an AuthResult payload with a
\* success field decodes, to a value that follows the convention exactly
\* when the payload carries both optional fields with success true or
\* neither with success false.
C8_ConventionPreserved ==
  /\ (Converted /\ kind = "ServerMessage" /\ value.variant = "AuthResult") =>
       /\ decoded.ServerMessage.ok
       /\ decoded.ServerMessage.val.variant = "AuthResult"
       /\ AuthResultConvention(decoded.ServerMessage.val) <=> AuthResultConvention(value)
  /\ (pc = "done" /\ kind = "payload" /\ value.enum = "ServerMessage"
        /\ value.tag = "AuthResult" /\ "success" \in value.present) =>
       /\ decoded.ServerMessage.ok
       /\ decoded.ServerMessage.val.variant = "AuthResult"
       /\ AuthResultConvention(decoded.ServerMessage.val) <=>
            IF value.flag
            THEN {"session_id", "expires_in_seconds"} \subseteq value.present
            ELSE value.present = {"success"}

C8_Witness ==
  /\ pc = "done" /\ kind = "payload" /\ value.enum = "ServerMessage"
  /\ value.tag = "AuthResult" /\ ~value.flag
  /\ value.present = {"success", "session_id", "expires_in_seconds"}
  /\ decoded.ServerMessage.ok
  /\ ~AuthResultConvention(decoded.ServerMessage.val)

\* C9: a ServerMessage or ClientMessage with fields encodes as an object of
\* exactly one member, named after the variant, whose value is an object
\* of the variant's fields; a unit variant encodes as its bare quoted
\* name, so AuthRequired.as_bytes() is "AuthRequired" and a line feed, and
\* the action of ActOnFakeKey is the bare name of the action.
C9_ExternallyTagged ==
  (Converted /\ kind \in {"ClientMessage", "ServerMessage"}) =>
    LET p == from_slice(bytes)
        name == Chars(value.variant)
    IN /\ p.ok
       /\ IF Declared.unit
          THEN /\ p.val = Str(name)
               /\ bytes = <<ch.quote>> \o name \o <<ch.quote, ch.lf>>
          ELSE /\ p.val.t = "obj"
               /\ Len(p.val.kv) = 1
               /\ p.val.kv[1].k = name
               /\ p.val.kv[1].v.t = "obj"
               /\ WireKeys(kind, bytes) \subseteq
                    {Chars(n) : n \in FieldNames(Declared.fields)}
               /\ {Chars(n) : n \in Required(Declared.fields)}
                    \subseteq WireKeys(kind, bytes)
               /\ Len(p.val.kv[1].v.kv) = Cardinality(WireKeys(kind, bytes))
       /\ value = Make(ServerMessage, "AuthRequired", <<>>) =>
            bytes = Chars("\"AuthRequired\"") \o <<ch.lf>>
       /\ (kind = "ClientMessage" /\ value.variant = "ActOnFakeKey") =>
            /\ \E i \in 1..Len(WireMembers(kind, bytes)) :
                 WireMembers(kind, bytes)[i] =
                   [k |-> Chars("action"), v |-> Str(Chars(value.action.variant))]
            /\ value.action.variant = "Press" =>
                 Contains(bytes, Chars("\"action\":\"Press\""))

C9_Witness ==
  /\ Converted /\ kind = "ServerMessage"
  /\ value = Make(ServerMessage, "AuthRequired", <<>>)
  /\ bytes = Chars("\"AuthRequired\"") \o <<ch.lf>>

\* C10: no encoding of a ServerResponse decodes as a ServerMessage and no
\* encoding of a ServerMessage decodes as a ServerResponse.
C10_EncodingsDisjoint ==
  pc = "done" =>
    /\ kind = "ServerResponse" => ~decoded.ServerMessage.ok
    /\ kind = "ServerMessage" => ~decoded.ServerResponse.ok

C10_Witness ==
  /\ pc = "done" /\ kind = "ServerMessage"
  /\ value = Make(ServerMessage, "MessagePush",
                  <<Obj(<<[k |-> Chars("status"), v |-> Str(Chars("Ok"))]>>)>>)
  /\ ~decoded.ServerResponse.ok
  /\ decoded.ServerMessage = Ok(value)

====
